---- MODULE Spec2Model ----
(***************************************************************************)
(* Model of scripts/generate-security-report.py: SecurityReportGenerator   *)
(* (the report_data dictionary and the methods that mutate it) and main(). *)
(*                                                                         *)
(* A dotted Python string such as 'rules.gdpr.hardcoded-personal-data' is  *)
(* represented by the sequence of its dot-separated segments, so that      *)
(* rule_id.split('.')[-1] is computed rather than assumed.                 *)
(***************************************************************************)
EXTENDS Integers, Sequences, FiniteSets, TLC

(* ---------------------------- bounds ---------------------------------- *)
\* longest results / findings / matches list in an input file read by main
MaxRecords == 2
\* longest such list in a file a direct caller passes to a loader
ApiMaxRecords == 1
\* number of method calls made on one generator object by a direct caller
MaxCalls == 3

(* ------------------------ input file contents -------------------------- *)
\* one element of data['results']; has_extra = FALSE is a record without
\* the 'extra' key
SemgrepResults ==
    { [check_id |-> <<"rules", "gdpr", "hardcoded-personal-data">>,
       severity |-> "ERROR", has_extra |-> TRUE],
      [check_id |-> <<"detect-pii-in-logs">>,
       severity |-> "WARNING", has_extra |-> TRUE],
      [check_id |-> <<"custom-rule">>,
       severity |-> "WARNING", has_extra |-> FALSE] }

\* one element of the secret-detection list: a JSON object (with or without
\* a RuleID key) or a JSON scalar
GitleaksFindings ==
    { [shape |-> "object", RuleID |-> <<"aws-access-key">>],
      [shape |-> "object", RuleID |-> <<>>],
      [shape |-> "scalar", RuleID |-> <<>>] }

\* one element of data['matches']: vulnerability.severity, vulnerability.id
\* and the shape of vulnerability.fix
\*   absent          no 'fix' key (or a falsy one)
\*   versions        fix.versions is a non-empty list, first element 1.2.3
\*   empty_versions  fix.versions is []
\*   versions_object fix.versions is a JSON object
VulnMatches ==
    { [severity |-> "MEDIUM",   id |-> <<"CVE-1">>, fix |-> "absent"],
      [severity |-> "HIGH",     id |-> <<"CVE-2">>, fix |-> "absent"],
      [severity |-> "CRITICAL", id |-> <<"CVE-3">>, fix |-> "versions"],
      [severity |-> "HIGH",     id |-> <<"CVE-4">>, fix |-> "empty_versions"],
      [severity |-> "CRITICAL", id |-> <<"CVE-5">>, fix |-> "versions_object"] }

\* all sequences over S of length at most n
SeqsUpTo(S, n) == UNION { [1..k -> S] : k \in 0..n }

\* len(data['paths']['scanned']) of a static-analysis file
ScannedCounts == {0, 2}

\* contents of security-reports/pii-scan.json
\*   missing       the file does not exist
\*   invalid_json  the text is not JSON
\*   json_list     the top-level JSON value is a list
\*   json          an object with paths.scanned and results
SemgrepFiles(n) ==
    { [kind |-> k, scanned |-> 0, results |-> <<>>] :
          k \in {"missing", "invalid_json", "json_list"} }
    \cup
    { [kind |-> "json", scanned |-> c, results |-> rs] :
          c \in ScannedCounts, rs \in SeqsUpTo(SemgrepResults, n) }

\* contents of security-reports/gitleaks-report.json
\*   json_null     the top-level JSON value is null
\*   json          a list of findings
GitleaksFiles(n) ==
    { [kind |-> k, findings |-> <<>>] :
          k \in {"missing", "invalid_json", "json_null"} }
    \cup
    { [kind |-> "json", findings |-> fs] :
          fs \in SeqsUpTo(GitleaksFindings, n) }

\* contents of security-reports/vulnerabilities.json
VulnFiles(n) ==
    { [kind |-> k, matches |-> <<>>] :
          k \in {"missing", "invalid_json", "json_list"} }
    \cup
    { [kind |-> "json", matches |-> ms] :
          ms \in SeqsUpTo(VulnMatches, n) }

(* ------------------------------ state --------------------------------- *)
VARIABLES
    total_files_scanned,   \* report_data['total_files_scanned']
    security_issues,       \* report_data['security_issues']
    compliance_status,     \* report_data['compliance_status']
    risk_level,            \* report_data['risk_level']
    recommendations,       \* report_data['recommendations']
    pc,                    \* position in main(), or "api" for a direct caller
    last,                  \* the method call just made and how it ended
    semgrep_file,          \* security-reports/pii-scan.json as main read it
    gitleaks_file,         \* security-reports/gitleaks-report.json as main read it
    vuln_file,             \* security-reports/vulnerabilities.json as main read it
    html_report,           \* the rendered document, as written by main
    calls                  \* number of direct method calls made so far

report == << total_files_scanned, security_issues, compliance_status, risk_level >>

vars == << total_files_scanned, security_issues, compliance_status, risk_level,
           recommendations, pc, last, semgrep_file, gitleaks_file, vuln_file,
           html_report, calls >>

\* the report_data fields a method works on
ReportData ==
    [ total_files_scanned |-> total_files_scanned,
      security_issues     |-> security_issues,
      compliance_status   |-> compliance_status,
      risk_level          |-> risk_level,
      recommendations     |-> recommendations ]

(* ------------------------- lookup tables ------------------------------ *)
\* The texts are the source's, without the pound sign of the fine amounts.
\* rule_id.split('.')[-1]
LastSegment(rule_id) == rule_id[Len(rule_id)]

impact_map ==
    [ k \in { "hardcoded-personal-data", "detect-pii-in-logs",
              "unencrypted-pii-storage", "missing-consent-check",
              "missing-audit-log" } |->
        CASE k = "hardcoded-personal-data" ->
               "GDPR Article 5 violation - ICO fine risk up to 20M, reputational damage"
          [] k = "detect-pii-in-logs" ->
               "Data exposure in logs - breach notification requirement, compliance violation"
          [] k = "unencrypted-pii-storage" ->
               "Article 32 violation - data security inadequacy, audit failure risk"
          [] k = "missing-consent-check" ->
               "Article 6 violation - unlawful processing, subject access request complications"
          [] k = "missing-audit-log" ->
               "Article 30 violation - inability to demonstrate compliance during audit" ]

_get_business_impact(rule_id) ==
    IF LastSegment(rule_id) \in DOMAIN impact_map
    THEN impact_map[LastSegment(rule_id)]
    ELSE "Potential compliance and security risk"

remediation_map ==
    [ k \in { "hardcoded-personal-data", "detect-pii-in-logs",
              "unencrypted-pii-storage", "missing-consent-check",
              "missing-audit-log" } |->
        CASE k = "hardcoded-personal-data" ->
               "Remove hardcoded PII, use environment variables or secure configuration"
          [] k = "detect-pii-in-logs" ->
               "Implement PII filtering in logging, use structured logging with field redaction"
          [] k = "unencrypted-pii-storage" ->
               "Implement field-level encryption for sensitive data in database"
          [] k = "missing-consent-check" ->
               "Add consent validation before data processing operations"
          [] k = "missing-audit-log" ->
               "Implement comprehensive audit logging for all data operations" ]

_get_remediation_advice(rule_id) ==
    IF LastSegment(rule_id) \in DOMAIN remediation_map
    THEN remediation_map[LastSegment(rule_id)]
    ELSE "Review security best practices and implement appropriate controls"

\* the business_impact texts the program can produce in which the
\* substring 'GDPR' occurs ('GDPR' in issue['business_impact'])
ContainsGDPR(text) ==
    text \in { "GDPR Article 5 violation - ICO fine risk up to 20M, reputational damage" }

(* --------------------------- exceptions -------------------------------- *)
\* what a try block's body did: the report_data it left and the exception
\* that ended it ("none" when it ran to its end)
Ended(d, exc) == [d |-> d, exc |-> exc]

\* the except clauses of a loader: an exception of a listed class is printed
\* and absorbed, any other propagates to the caller
Handle(r, caught) ==
    [ d      |-> r.d,
      exc    |-> r.exc,
      status |-> IF r.exc = "none" THEN "ok"
                 ELSE IF r.exc \in caught THEN "logged"
                 ELSE "raised" ]

SemgrepCaught  == { "FileNotFoundError", "JSONDecodeError" }
GitleaksCaught == { "FileNotFoundError", "JSONDecodeError", "KeyError" }
VulnCaught     == { "FileNotFoundError", "JSONDecodeError", "KeyError" }

\* index of the first element of seq satisfying Bad, Len(seq) + 1 if none:
\* the iteration of a for loop at which the body raises
FirstIndex(seq, Bad(_)) ==
    IF \E i \in 1..Len(seq) : Bad(seq[i])
    THEN CHOOSE i \in 1..Len(seq) :
             Bad(seq[i]) /\ \A j \in 1..(i - 1) : ~Bad(seq[j])
    ELSE Len(seq) + 1

MapSeq(seq, F(_)) == [ i \in 1..Len(seq) |-> F(seq[i]) ]

(* ---------------------- load_semgrep_results --------------------------- *)
SemgrepIssue(result) ==
    [ type            |-> "GDPR Compliance Violation",
      severity        |-> result.severity,
      rule_id         |-> result.check_id,
      business_impact |-> _get_business_impact(result.check_id),
      remediation     |-> _get_remediation_advice(result.check_id) ]

\* result['extra'] raises KeyError
SemgrepResultRaises(result) == ~result.has_extra

\* variant: all() in place of any()
SemgrepVerdict_AllError(results) ==
    IF Len(results) = 0
    THEN [ risk_level |-> "LOW", compliance_status |-> "COMPLIANT" ]
    ELSE IF \A i \in 1..Len(results) : results[i].severity = "ERROR"
    THEN [ risk_level |-> "HIGH", compliance_status |-> "NON-COMPLIANT" ]
    ELSE [ risk_level |-> "MEDIUM", compliance_status |-> "PARTIALLY COMPLIANT" ]

\* "Determine overall risk level"
SemgrepVerdict(results) ==
    IF Len(results) = 0
    THEN [ risk_level |-> "LOW", compliance_status |-> "COMPLIANT" ]
    ELSE IF \E i \in 1..Len(results) : results[i].severity = "ERROR"
    THEN [ risk_level |-> "HIGH", compliance_status |-> "NON-COMPLIANT" ]
    ELSE [ risk_level |-> "MEDIUM", compliance_status |-> "PARTIALLY COMPLIANT" ]

SemgrepBody(d, file) ==
    CASE file.kind = "missing"      -> Ended(d, "FileNotFoundError")
      [] file.kind = "invalid_json" -> Ended(d, "JSONDecodeError")
      [] file.kind = "json_list"    -> Ended(d, "AttributeError")
      [] file.kind = "json" ->
           LET bad  == FirstIndex(file.results, SemgrepResultRaises)
               done == SubSeq(file.results, 1, bad - 1)
               d1   == [ d EXCEPT !.total_files_scanned = file.scanned,
                                  !.security_issues = @ \o MapSeq(done, SemgrepIssue) ]
               v    == SemgrepVerdict(file.results)
           IN  IF bad <= Len(file.results)
               THEN Ended(d1, "KeyError")
               ELSE Ended([ d1 EXCEPT !.risk_level = v.risk_level,
                                      !.compliance_status = v.compliance_status ],
                          "none")

load_semgrep_results(d, file) == Handle(SemgrepBody(d, file), SemgrepCaught)

(* ---------------------- load_gitleaks_results -------------------------- *)
\* finding.get('RuleID', 'secret-detection')
GitleaksRuleId(finding) ==
    IF finding.RuleID = <<>> THEN <<"secret-detection">> ELSE finding.RuleID

GitleaksIssue(finding) ==
    [ type            |-> "Secret/PII Exposure",
      severity        |-> "HIGH",
      rule_id         |-> GitleaksRuleId(finding),
      business_impact |-> "Data breach risk, ICO fine exposure (up to 20M)",
      remediation     |-> "Remove secret from code, rotate credentials, implement secrets management" ]

\* finding.get raises AttributeError on a value that is not an object
GitleaksFindingRaises(finding) == finding.shape # "object"

\* variant: a finding raises the level to that of its own issue, HIGH
GitleaksVerdict_IssueSeverity(d, processed) ==
    IF processed > 0
    THEN [ risk_level |-> "HIGH", compliance_status |-> "NON-COMPLIANT" ]
    ELSE [ risk_level |-> d.risk_level, compliance_status |-> d.compliance_status ]

\* the assignments made in each iteration of the loop over the findings
GitleaksVerdict(d, processed) ==
    IF processed > 0
    THEN [ risk_level |-> "CRITICAL", compliance_status |-> "NON-COMPLIANT" ]
    ELSE [ risk_level |-> d.risk_level, compliance_status |-> d.compliance_status ]

GitleaksBody(d, file) ==
    CASE file.kind = "missing"      -> Ended(d, "FileNotFoundError")
      [] file.kind = "invalid_json" -> Ended(d, "JSONDecodeError")
      [] file.kind = "json_null"    -> Ended(d, "TypeError")
      [] file.kind = "json" ->
           LET bad  == FirstIndex(file.findings, GitleaksFindingRaises)
               done == SubSeq(file.findings, 1, bad - 1)
               v    == GitleaksVerdict(d, Len(done))
               d1   == [ d EXCEPT !.security_issues = @ \o MapSeq(done, GitleaksIssue),
                                  !.risk_level = v.risk_level,
                                  !.compliance_status = v.compliance_status ]
           IN  Ended(d1, IF bad <= Len(file.findings) THEN "AttributeError" ELSE "none")

load_gitleaks_results(d, file) == Handle(GitleaksBody(d, file), GitleaksCaught)

(* --------------------- load_vulnerability_scan ------------------------- *)
\* severity in ['HIGH', 'CRITICAL']
VulnReported(match) == match.severity \in { "HIGH", "CRITICAL" }

\* the remediation text of a reported match
VulnRemediation(match) ==
    IF match.fix = "versions" THEN "Update to version 1.2.3"
    ELSE "Update to version latest"

\* the exception raised while building the issue of a match: [][0] is an
\* IndexError, {}[0] a KeyError
VulnMatchExc(match) ==
    IF ~VulnReported(match) THEN "none"
    ELSE IF match.fix = "empty_versions" THEN "IndexError"
    ELSE IF match.fix = "versions_object" THEN "KeyError"
    ELSE "none"

VulnMatchRaises(match) == VulnMatchExc(match) # "none"

VulnIssue(match) ==
    [ type            |-> "Dependency Vulnerability",
      severity        |-> match.severity,
      rule_id         |-> match.id,
      business_impact |-> "Supply chain security risk, potential data exposure",
      remediation     |-> VulnRemediation(match) ]

\* variant: the loader also raises risk_level when it reports a match
VulnBody_SetsRisk(d, file) ==
    CASE file.kind = "missing"      -> Ended(d, "FileNotFoundError")
      [] file.kind = "invalid_json" -> Ended(d, "JSONDecodeError")
      [] file.kind = "json_list"    -> Ended(d, "AttributeError")
      [] file.kind = "json" ->
           LET bad  == FirstIndex(file.matches, VulnMatchRaises)
               done == SelectSeq(SubSeq(file.matches, 1, bad - 1), VulnReported)
               d1   == [ d EXCEPT !.security_issues = @ \o MapSeq(done, VulnIssue),
                                  !.risk_level = IF done # <<>> THEN "HIGH" ELSE @,
                                  !.compliance_status =
                                      IF done # <<>> THEN "NON-COMPLIANT" ELSE @ ]
           IN  Ended(d1, IF bad <= Len(file.matches)
                         THEN VulnMatchExc(file.matches[bad]) ELSE "none")

VulnBody(d, file) ==
    CASE file.kind = "missing"      -> Ended(d, "FileNotFoundError")
      [] file.kind = "invalid_json" -> Ended(d, "JSONDecodeError")
      [] file.kind = "json_list"    -> Ended(d, "AttributeError")
      [] file.kind = "json" ->
           LET bad  == FirstIndex(file.matches, VulnMatchRaises)
               done == SelectSeq(SubSeq(file.matches, 1, bad - 1), VulnReported)
               d1   == [ d EXCEPT !.security_issues = @ \o MapSeq(done, VulnIssue) ]
           IN  Ended(d1, IF bad <= Len(file.matches)
                         THEN VulnMatchExc(file.matches[bad]) ELSE "none")

load_vulnerability_scan(d, file) == Handle(VulnBody(d, file), VulnCaught)

(* --------------------- generate_recommendations ------------------------ *)
DefaultRecommendations ==
    << <<"Continue current security practices">>,
       <<"Consider implementing additional monitoring for runtime security">>,
       <<"Schedule quarterly security reviews to maintain compliance posture">> >>

\* the first item is the f-string naming high_severity_count
HighSeverityBlock(n) ==
    << <<"IMMEDIATE ACTION: Address", n, "high/critical severity issues">>,
       <<"Implement mandatory security training for development team">>,
       <<"Review and strengthen code review processes">> >>

GdprBlock ==
    << <<"Schedule legal review of data processing practices">>,
       <<"Conduct GDPR compliance training for technical teams">>,
       <<"Implement Data Protection Impact Assessment (DPIA) process">> >>

\* variant: only 'HIGH' is counted
high_severity_count_HighOnly(issues) ==
    Cardinality({ i \in 1..Len(issues) : issues[i].severity = "HIGH" })

high_severity_count(issues) ==
    Cardinality({ i \in 1..Len(issues) : issues[i].severity \in { "HIGH", "CRITICAL" } })

AnyGdprImpact(issues) ==
    \E i \in 1..Len(issues) : ContainsGDPR(issues[i].business_impact)

generate_recommendations(d) ==
    IF d.security_issues = <<>>
    THEN [ d EXCEPT !.recommendations = DefaultRecommendations ]
    ELSE LET n  == high_severity_count(d.security_issues)
             r1 == IF n > 0 THEN d.recommendations \o HighSeverityBlock(n)
                   ELSE d.recommendations
             r2 == IF AnyGdprImpact(d.security_issues) THEN r1 \o GdprBlock
                   ELSE r1
         IN  [ d EXCEPT !.recommendations = r2 ]

(* ----------------------- generate_html_report -------------------------- *)
NotRendered ==
    [ rendered |-> FALSE, risk_level |-> "", compliance_status |-> "",
      issue_count |-> 0, files_scanned |-> 0, no_issues_banner |-> FALSE,
      findings_section |-> FALSE, findings |-> <<>>, recommendations |-> <<>> ]

\* one <div class="issue"> of the findings loop
RenderIssue(issue) ==
    [ severity |-> issue.severity, gdpr_badge |-> ContainsGDPR(issue.business_impact) ]

\* the blocks of the template that depend on report_data
generate_html_report(d) ==
    [ rendered          |-> TRUE,
      risk_level        |-> d.risk_level,
      compliance_status |-> d.compliance_status,
      issue_count       |-> Len(d.security_issues),
      files_scanned     |-> d.total_files_scanned,
      no_issues_banner  |-> d.compliance_status = "COMPLIANT",
      findings_section  |-> d.security_issues # <<>>,
      findings          |-> IF d.security_issues # <<>>
                            THEN MapSeq(d.security_issues, RenderIssue) ELSE <<>>,
      recommendations   |-> d.recommendations ]

(* ------------------------------ actions -------------------------------- *)
\* a file of security-reports/ that main has not opened yet
UnreadSemgrep  == [ kind |-> "unread", scanned |-> 0, results |-> <<>> ]
UnreadGitleaks == [ kind |-> "unread", findings |-> <<>> ]
UnreadVuln     == [ kind |-> "unread", matches |-> <<>> ]

\* SecurityReportGenerator.__init__
Constructed ==
    /\ total_files_scanned = 0
    /\ security_issues = <<>>
    /\ compliance_status = "COMPLIANT"
    /\ risk_level = "LOW"
    /\ recommendations = <<>>
    /\ last = [ op |-> "__init__", status |-> "ok", exc |-> "none" ]
    /\ semgrep_file = UnreadSemgrep
    /\ gitleaks_file = UnreadGitleaks
    /\ vuln_file = UnreadVuln
    /\ html_report = NotRendered
    /\ calls = 0

\* write the report_data a method left behind and record how the call ended
Returns(op, r) ==
    /\ total_files_scanned' = r.d.total_files_scanned
    /\ security_issues' = r.d.security_issues
    /\ compliance_status' = r.d.compliance_status
    /\ risk_level' = r.d.risk_level
    /\ recommendations' = r.d.recommendations
    /\ last' = [ op |-> op, status |-> r.status, exc |-> r.exc ]

\* a method without a try block
Plain(d) == [ d |-> d, exc |-> "none", status |-> "ok" ]

\* main(): an exception that leaves a loader ends the process
After(r, next) == IF r.status = "raised" THEN "crashed" ELSE next

Init == Constructed /\ pc = "load_semgrep"

MainLoadSemgrep ==
    /\ pc = "load_semgrep"
    /\ \E file \in SemgrepFiles(MaxRecords) :
         LET r == load_semgrep_results(ReportData, file)
         IN  /\ Returns("load_semgrep_results", r)
             /\ pc' = After(r, "load_gitleaks")
             /\ semgrep_file' = file
    /\ UNCHANGED << gitleaks_file, vuln_file, html_report, calls >>

MainLoadGitleaks ==
    /\ pc = "load_gitleaks"
    /\ \E file \in GitleaksFiles(MaxRecords) :
         LET r == load_gitleaks_results(ReportData, file)
         IN  /\ Returns("load_gitleaks_results", r)
             /\ pc' = After(r, "load_vulnerability")
             /\ gitleaks_file' = file
    /\ UNCHANGED << semgrep_file, vuln_file, html_report, calls >>

MainLoadVulnerability ==
    /\ pc = "load_vulnerability"
    /\ \E file \in VulnFiles(MaxRecords) :
         LET r == load_vulnerability_scan(ReportData, file)
         IN  /\ Returns("load_vulnerability_scan", r)
             /\ pc' = After(r, "recommendations")
             /\ vuln_file' = file
    /\ UNCHANGED << semgrep_file, gitleaks_file, html_report, calls >>

MainGenerateRecommendations ==
    /\ pc = "recommendations"
    /\ Returns("generate_recommendations", Plain(generate_recommendations(ReportData)))
    /\ pc' = "html"
    /\ UNCHANGED << semgrep_file, gitleaks_file, vuln_file, html_report, calls >>

\* generate_html_report, the write of executive-report.html and the two
\* final prints
MainGenerateHtml ==
    /\ pc = "html"
    /\ html_report' = generate_html_report(ReportData)
    /\ Returns("generate_html_report", Plain(ReportData))
    /\ pc' = "done"
    /\ UNCHANGED << semgrep_file, gitleaks_file, vuln_file, calls >>

Next ==
    \/ MainLoadSemgrep
    \/ MainLoadGitleaks
    \/ MainLoadVulnerability
    \/ MainGenerateRecommendations
    \/ MainGenerateHtml

Spec == Init /\ [][Next]_vars

(* A caller that uses the class directly: any methods, in any order, on    *)
(* files of its own choosing.  An exception that leaves a method is the    *)
(* caller's to handle; the object stays as the method left it.             *)
InitApi == Constructed /\ pc = "api"

CallLoadSemgrep ==
    /\ pc = "api" /\ calls < MaxCalls
    /\ \E file \in SemgrepFiles(ApiMaxRecords) :
         Returns("load_semgrep_results", load_semgrep_results(ReportData, file))
    /\ calls' = calls + 1
    /\ UNCHANGED << pc, semgrep_file, gitleaks_file, vuln_file, html_report >>

CallLoadGitleaks ==
    /\ pc = "api" /\ calls < MaxCalls
    /\ \E file \in GitleaksFiles(ApiMaxRecords) :
         Returns("load_gitleaks_results", load_gitleaks_results(ReportData, file))
    /\ calls' = calls + 1
    /\ UNCHANGED << pc, semgrep_file, gitleaks_file, vuln_file, html_report >>

CallLoadVulnerability ==
    /\ pc = "api" /\ calls < MaxCalls
    /\ \E file \in VulnFiles(ApiMaxRecords) :
         Returns("load_vulnerability_scan", load_vulnerability_scan(ReportData, file))
    /\ calls' = calls + 1
    /\ UNCHANGED << pc, semgrep_file, gitleaks_file, vuln_file, html_report >>

CallGenerateRecommendations ==
    /\ pc = "api" /\ calls < MaxCalls
    /\ Returns("generate_recommendations", Plain(generate_recommendations(ReportData)))
    /\ calls' = calls + 1
    /\ UNCHANGED << pc, semgrep_file, gitleaks_file, vuln_file, html_report >>

NextApi ==
    \/ CallLoadSemgrep
    \/ CallLoadGitleaks
    \/ CallLoadVulnerability
    \/ CallGenerateRecommendations

SpecApi == InitApi /\ [][NextApi]_vars

(* ------------------------------ claims --------------------------------- *)
Critical == risk_level = "CRITICAL" /\ compliance_status = "NON-COMPLIANT"

IsLoader(op) ==
    op \in { "load_semgrep_results", "load_gitleaks_results", "load_vulnerability_scan" }

HasIssueOfType(t) == \E i \in 1..Len(security_issues) : security_issues[i].type = t

\* a non-empty JSON list whose elements are all finding objects
NonEmptyFindings(file) ==
    /\ file.kind = "json"
    /\ Len(file.findings) > 0
    /\ \A i \in 1..Len(file.findings) : file.findings[i].shape = "object"

\* C1: in main, whenever the secret-detection file holds a non-empty list of
\* findings, every state from the return of load_gitleaks_results on, the
\* final one and the rendered report included, has risk_level = CRITICAL and
\* compliance_status = NON-COMPLIANT, whatever the other two files hold.
C1_SecretsForceCritical ==
    NonEmptyFindings(gitleaks_file) =>
        /\ Critical
        /\ pc = "done" =>
             /\ html_report.risk_level = "CRITICAL"
             /\ html_report.compliance_status = "NON-COMPLIANT"

\* the run ended after an ERROR static-analysis result, a secret finding and
\* a reported vulnerability
C1_Witness ==
    /\ pc = "done"
    /\ NonEmptyFindings(gitleaks_file)
    /\ semgrep_file.kind = "json"
    /\ \E i \in 1..Len(semgrep_file.results) : semgrep_file.results[i].severity = "ERROR"
    /\ HasIssueOfType("Dependency Vulnerability")

\* C2: no loader raises to its caller, so main never ends in an exception.
C2_NoLoaderRaises == last.status # "raised" /\ pc # "crashed"

\* C3: a loader call that does not succeed leaves total_files_scanned,
\* security_issues, compliance_status and risk_level as they were.
C3_FailedLoadHasNoEffect ==
    [][ (IsLoader(last'.op) /\ last'.status # "ok") => UNCHANGED report ]_vars

\* the verdict the claim gives for a list of static-analysis results
C4_Verdict(results) ==
    IF results = <<>> THEN << "LOW", "COMPLIANT" >>
    ELSE IF "ERROR" \in { results[i].severity : i \in 1..Len(results) }
    THEN << "HIGH", "NON-COMPLIANT" >>
    ELSE << "MEDIUM", "PARTIALLY COMPLIANT" >>

\* C4: when load_semgrep_results has processed a well-formed file, risk_level
\* and compliance_status are the verdict of that file's results alone, and
\* the issues appended are one 'GDPR Compliance Violation' per result, in
\* input order.
C4_SemgrepVerdictAndIssues ==
    (last.op = "load_semgrep_results" /\ last.status = "ok") =>
        /\ << risk_level, compliance_status >> = C4_Verdict(semgrep_file.results)
        /\ Len(security_issues) = Len(semgrep_file.results)
        /\ \A i \in 1..Len(security_issues) :
             /\ security_issues[i].type = "GDPR Compliance Violation"
             /\ security_issues[i].rule_id = semgrep_file.results[i].check_id
             /\ security_issues[i].severity = semgrep_file.results[i].severity

\* a WARNING result followed by an ERROR result has been processed
C4_Witness ==
    /\ last.op = "load_semgrep_results" /\ last.status = "ok"
    /\ Len(semgrep_file.results) = 2
    /\ semgrep_file.results[1].severity = "WARNING"
    /\ semgrep_file.results[2].severity = "ERROR"
    /\ risk_level = "HIGH"

\* C5: once the three loaders have run, an issue of severity HIGH or
\* CRITICAL in security_issues implies risk_level is HIGH or CRITICAL and
\* compliance_status is NON-COMPLIANT.
C5_RiskReflectsWorstIssue ==
    (pc \in { "recommendations", "html", "done" }
       /\ \E i \in 1..Len(security_issues) :
            security_issues[i].severity \in { "HIGH", "CRITICAL" })
    => /\ risk_level \in { "HIGH", "CRITICAL" }
       /\ compliance_status = "NON-COMPLIANT"

\* the matches of a file for which the claim expects an issue
C6_Reported(matches) ==
    LET Rep(m) == m.severity \in { "HIGH", "CRITICAL" } IN SelectSeq(matches, Rep)

\* C6: load_vulnerability_scan appends exactly one 'Dependency Vulnerability'
\* issue per match of severity HIGH or CRITICAL, in input order, and changes
\* nothing else of the report.
C6_VulnOnlyAppends ==
    [][ last'.op = "load_vulnerability_scan" =>
          /\ UNCHANGED << risk_level, compliance_status, total_files_scanned >>
          /\ Len(security_issues') = Len(security_issues) + Len(C6_Reported(vuln_file'.matches))
          /\ SubSeq(security_issues', 1, Len(security_issues)) = security_issues
          /\ \A i \in 1..Len(C6_Reported(vuln_file'.matches)) :
               LET issue == security_issues'[Len(security_issues) + i]
               IN  /\ issue.type = "Dependency Vulnerability"
                   /\ issue.rule_id = C6_Reported(vuln_file'.matches)[i].id ]_vars

\* the number of issues of severity HIGH or CRITICAL, counted one by one
RECURSIVE C7_Count(_)
C7_Count(issues) ==
    IF issues = <<>> THEN 0
    ELSE (IF Head(issues).severity = "HIGH" \/ Head(issues).severity = "CRITICAL"
          THEN 1 ELSE 0) + C7_Count(Tail(issues))

\* the list the claim expects for a list of issues
C7_Expected(issues) ==
    IF issues = <<>>
    THEN << <<"Continue current security practices">>,
            <<"Consider implementing additional monitoring for runtime security">>,
            <<"Schedule quarterly security reviews to maintain compliance posture">> >>
    ELSE (IF C7_Count(issues) > 0
          THEN << <<"IMMEDIATE ACTION: Address", C7_Count(issues),
                    "high/critical severity issues">>,
                  <<"Implement mandatory security training for development team">>,
                  <<"Review and strengthen code review processes">> >>
          ELSE <<>>)
         \o
         (IF \E i \in 1..Len(issues) : ContainsGDPR(issues[i].business_impact)
          THEN << <<"Schedule legal review of data processing practices">>,
                  <<"Conduct GDPR compliance training for technical teams">>,
                  <<"Implement Data Protection Impact Assessment (DPIA) process">> >>
          ELSE <<>>)

\* C7: after main's call of generate_recommendations on the freshly loaded
\* report, recommendations is the three defaults if there are no issues, and
\* otherwise the high-severity block (naming the count n) iff n > 0 followed
\* by the GDPR block iff some business_impact contains 'GDPR', nothing else.
C7_RecommendationsExact ==
    pc \in { "html", "done" } => recommendations = C7_Expected(security_issues)

\* both blocks, with two issues counted
C7_Witness ==
    /\ pc = "html"
    /\ Len(recommendations) = 6
    /\ recommendations[1] = <<"IMMEDIATE ACTION: Address", 2, "high/critical severity issues">>
    /\ recommendations[4] = <<"Schedule legal review of data processing practices">>

\* C8 as stated: once load_gitleaks_results has processed a finding (its
\* issue is in security_issues), CRITICAL / NON-COMPLIANT holds in every
\* later state, whatever is called next.
C8_SecretsAlwaysCritical ==
    HasIssueOfType("Secret/PII Exposure") => Critical

\* C8 amended: a load_gitleaks_results call that processes a finding leaves
\* CRITICAL / NON-COMPLIANT, and they then hold after every later call other
\* than a load_semgrep_results call that processes its file successfully.
C8_CriticalUntilSemgrepSucceeds ==
    [][ /\ (last'.op = "load_gitleaks_results"
              /\ Len(security_issues') > Len(security_issues)) => Critical'
        /\ (HasIssueOfType("Secret/PII Exposure") /\ Critical
              /\ ~(last'.op = "load_semgrep_results" /\ last'.status = "ok"))
           => Critical' ]_vars

\* after a secret was found, a static-analysis load wrote total_files_scanned
\* and then raised on a record, and the report is still CRITICAL
C8_Witness ==
    /\ security_issues # <<>>
    /\ security_issues[1].type = "Secret/PII Exposure"
    /\ last.op = "load_semgrep_results"
    /\ last.status = "raised"
    /\ total_files_scanned = 2
    /\ Critical

\* C9: in the report main renders, the 'no issues' banner is present iff
\* security_issues is empty and the findings list iff it is non-empty.
C9_BannerXorFindings ==
    pc = "done" =>
        /\ html_report.no_issues_banner <=> (security_issues = <<>>)
        /\ html_report.findings_section <=> (security_issues # <<>>)

\* C10: a second call of generate_recommendations in a row leaves the list
\* the first call left.
C10_RecommendationsIdempotent ==
    [][ (last.op = "generate_recommendations" /\ last'.op = "generate_recommendations")
          => recommendations' = recommendations ]_vars

====
